---- MODULE Spec2Model ----
(***************************************************************************)
(* Model of src/registry.rs: the two proof registries                      *)
(* (RegisteredSealProof, RegisteredPoStProof), their pure lookups, and the *)
(* calls caller threads make on them while an external writer stores to    *)
(* the shared atomic DEFAULT_POREP_PROOF_PARTITIONS.                       *)
(***************************************************************************)
EXTENDS Integers, Sequences, FiniteSets, TLC

(* ------------------------------------------------------------------ *)
(* Bounds of the model                                                 *)
(* ------------------------------------------------------------------ *)

\* Caller threads making registry calls concurrently.
Threads == {"t1", "t2"}

\* The largest partition count the external writer stores into the shared
\* default.
MaxPartitions == 10

\* The u8 values the shared default takes: the smallest useful count, and
\* the counts from 10 (the default the external crate ships) up to the bound.
PartitionValues == {1} \cup (10..MaxPartitions)

\* The failures the external derivation routine can report.
ExtErrors == {"io", "hash"}

(* ------------------------------------------------------------------ *)
(* State                                                               *)
(* ------------------------------------------------------------------ *)

VARIABLES
    DEFAULT_POREP_PROOF_PARTITIONS, \* the shared AtomicU8
    lastStored,   \* the value the external writer stored last
    pc,           \* per thread: "idle", "called", "done"
    call,         \* per thread: the call in progress or finished
    nloads,       \* per thread: atomic loads executed by the call
    loaded,       \* per thread: what the call's atomic load returned
    result,       \* per thread: what the call returned
    extArg,       \* per thread: the configuration handed to the external routine
    extOut        \* per thread: what the external routine answered

vars == <<DEFAULT_POREP_PROOF_PARTITIONS, lastStored,
          pc, call, nloads, loaded, result, extArg, extOut>>

(* ------------------------------------------------------------------ *)
(* u64 values: four 16-bit limbs, least significant first              *)
(* ------------------------------------------------------------------ *)

\* 1 << n as a u64, 0 <= n < 64
Shl1(n) == [i \in 0..3 |-> IF i = n \div 16 THEN 2 ^ (n % 16) ELSE 0]

\* a number below 2^31 as a u64
U64Of(n) == [i \in 0..3 |-> CASE i = 0 -> n % 65536
                              [] i = 1 -> (n \div 65536) % 65536
                              [] OTHER -> 0]

(* ------------------------------------------------------------------ *)
(* The external crate filecoin_proofs_v1                               *)
(* ------------------------------------------------------------------ *)

SECTOR_SIZE_ONE_KIB == U64Of(1024)
SECTOR_SIZE_16_MIB == Shl1(24)
SECTOR_SIZE_256_MIB == Shl1(28)
SECTOR_SIZE_1_GIB == Shl1(30)
SECTOR_SIZE_32_GIB == Shl1(35)

POST_CHALLENGE_COUNT == 40
POST_CHALLENGED_NODES == 1
SINGLE_PARTITION_PROOF_LEN == 192

\* the newtypes SectorSize(u64) and PoRepProofPartitions(u8)
SectorSize(size) == [SectorSize |-> size]
PoRepProofPartitions(n) == [PoRepProofPartitions |-> n]

\* anyhow::Result<String>
Ok(s) == [ok |-> TRUE, val |-> s]
Err(e) == [ok |-> FALSE, err |-> e]

\* a panic unwinding out of a call
Panic == [panic |-> TRUE]
IsPanic(x) == "panic" \in DOMAIN x

NoFault == "none"

\* PoRepConfig::get_cache_identifier / PoStConfig::get_cache_identifier:
\* fails with the fault it meets in this call, if any, and otherwise derives
\* a string from every field of the configuration.
get_cache_identifier(config, fault) ==
    IF fault # NoFault THEN Err(fault)
    ELSE IF "partitions" \in DOMAIN config
         THEN Ok(<<"porep", config.sector_size.SectorSize,
                   config.partitions.PoRepProofPartitions>>)
         ELSE Ok(<<"post", config.sector_size.SectorSize,
                   config.challenge_count, config.challenged_nodes>>)

(* ------------------------------------------------------------------ *)
(* registry.rs: enums                                                  *)
(* ------------------------------------------------------------------ *)

RegisteredSealProof ==
    {"StackedDrg1KiBV1", "StackedDrg16MiBV1", "StackedDrg256MiBV1",
     "StackedDrg1GiBV1", "StackedDrg32GiBV1"}

RegisteredPoStProof ==
    {"StackedDrg1KiBV1", "StackedDrg16MiBV1", "StackedDrg256MiBV1",
     "StackedDrg1GiBV1", "StackedDrg32GiBV1"}

Version == {"V1"}

(* ------------------------------------------------------------------ *)
(* impl RegisteredSealProof.  `load` is the value the Relaxed load of  *)
(* DEFAULT_POREP_PROOF_PARTITIONS returned in this call.               *)
(* ------------------------------------------------------------------ *)

Seal_version(self) ==
    CASE self \in {"StackedDrg1KiBV1", "StackedDrg16MiBV1", "StackedDrg256MiBV1",
                   "StackedDrg1GiBV1", "StackedDrg32GiBV1"} -> "V1"

\* mutant: the 16 MiB and 256 MiB arms exchanged
Seal_sector_size_swapped(self) ==
    LET size == CASE self = "StackedDrg1KiBV1" -> SECTOR_SIZE_ONE_KIB
                  [] self = "StackedDrg16MiBV1" -> SECTOR_SIZE_256_MIB
                  [] self = "StackedDrg256MiBV1" -> SECTOR_SIZE_16_MIB
                  [] self = "StackedDrg1GiBV1" -> SECTOR_SIZE_1_GIB
                  [] self = "StackedDrg32GiBV1" -> SECTOR_SIZE_32_GIB
    IN  SectorSize(size)

Seal_sector_size(self) ==
    LET size == CASE self = "StackedDrg1KiBV1" -> SECTOR_SIZE_ONE_KIB
                  [] self = "StackedDrg16MiBV1" -> SECTOR_SIZE_16_MIB
                  [] self = "StackedDrg256MiBV1" -> SECTOR_SIZE_256_MIB
                  [] self = "StackedDrg1GiBV1" -> SECTOR_SIZE_1_GIB
                  [] self = "StackedDrg32GiBV1" -> SECTOR_SIZE_32_GIB
    IN  SectorSize(size)

Seal_partitions(self, load) ==
    CASE self \in {"StackedDrg1KiBV1", "StackedDrg16MiBV1", "StackedDrg256MiBV1",
                   "StackedDrg1GiBV1", "StackedDrg32GiBV1"} -> load

Seal_single_partition_proof_len(self) ==
    CASE self \in {"StackedDrg1KiBV1", "StackedDrg16MiBV1", "StackedDrg256MiBV1",
                   "StackedDrg1GiBV1", "StackedDrg32GiBV1"} -> SINGLE_PARTITION_PROOF_LEN

\* mutant: the sector size written out instead of taken from sector_size()
Seal_as_v1_config_fixed_size(self, load) ==
    [sector_size |-> SectorSize(SECTOR_SIZE_32_GIB),
     partitions |-> PoRepProofPartitions(Seal_partitions(self, load))]

\* mutant: the partition count written out instead of taken from partitions()
Seal_as_v1_config_fixed_partitions(self, load) ==
    [sector_size |-> Seal_sector_size(self),
     partitions |-> PoRepProofPartitions(10)]

\* mutant: the atomic read again when the configuration is assembled
Seal_as_v1_config_reread(self, load) ==
    [sector_size |-> Seal_sector_size(self),
     partitions |-> PoRepProofPartitions(DEFAULT_POREP_PROOF_PARTITIONS)]

Seal_as_v1_config(self, load) ==
    IF Seal_version(self) # "V1" THEN Panic
    ELSE CASE self \in {"StackedDrg1KiBV1", "StackedDrg16MiBV1", "StackedDrg256MiBV1",
                        "StackedDrg1GiBV1", "StackedDrg32GiBV1"} ->
              [sector_size |-> Seal_sector_size(self),
               partitions |-> PoRepProofPartitions(Seal_partitions(self, load))]

\* mutant: the external failure replaced by an error of the registry's own
Seal_cache_identifier_wrapped(self, load, fault) ==
    LET r == get_cache_identifier(Seal_as_v1_config(self, load), fault)
    IN  IF r.ok THEN r ELSE Err("cache identifier unavailable")

\* (Version has the one variant V1: the match has no other arm to enter)
Seal_cache_identifier(self, load, fault) ==
    CASE Seal_version(self) = "V1" ->
            LET config == Seal_as_v1_config(self, load)
            IN  IF IsPanic(config) THEN Panic
                ELSE get_cache_identifier(config, fault)
      [] OTHER -> Panic

(* ------------------------------------------------------------------ *)
(* impl RegisteredPoStProof                                            *)
(* ------------------------------------------------------------------ *)

\* mutant: one identifier classified under another version
PoSt_version_other(self) ==
    IF self = "StackedDrg32GiBV1" THEN "V2" ELSE "V1"

PoSt_version(self) ==
    CASE self \in {"StackedDrg1KiBV1", "StackedDrg16MiBV1", "StackedDrg256MiBV1",
                   "StackedDrg1GiBV1", "StackedDrg32GiBV1"} -> "V1"

\* mutant: the 256 MiB arm copied from the 16 MiB arm
PoSt_sector_size_dup(self) ==
    LET size == CASE self = "StackedDrg1KiBV1" -> SECTOR_SIZE_ONE_KIB
                  [] self = "StackedDrg16MiBV1" -> SECTOR_SIZE_16_MIB
                  [] self = "StackedDrg256MiBV1" -> SECTOR_SIZE_16_MIB
                  [] self = "StackedDrg1GiBV1" -> SECTOR_SIZE_1_GIB
                  [] self = "StackedDrg32GiBV1" -> SECTOR_SIZE_32_GIB
    IN  SectorSize(size)

PoSt_sector_size(self) ==
    LET size == CASE self = "StackedDrg1KiBV1" -> SECTOR_SIZE_ONE_KIB
                  [] self = "StackedDrg16MiBV1" -> SECTOR_SIZE_16_MIB
                  [] self = "StackedDrg256MiBV1" -> SECTOR_SIZE_256_MIB
                  [] self = "StackedDrg1GiBV1" -> SECTOR_SIZE_1_GIB
                  [] self = "StackedDrg32GiBV1" -> SECTOR_SIZE_32_GIB
    IN  SectorSize(size)

\* mutant: the Sealing registry's body, reading the tunable default
PoSt_partitions_tunable(self) == DEFAULT_POREP_PROOF_PARTITIONS

PoSt_partitions(self) ==
    CASE self \in {"StackedDrg1KiBV1", "StackedDrg16MiBV1", "StackedDrg256MiBV1",
                   "StackedDrg1GiBV1", "StackedDrg32GiBV1"} -> 1

PoSt_single_partition_proof_len(self) ==
    CASE self \in {"StackedDrg1KiBV1", "StackedDrg16MiBV1", "StackedDrg256MiBV1",
                   "StackedDrg1GiBV1", "StackedDrg32GiBV1"} -> SINGLE_PARTITION_PROOF_LEN

PoSt_as_v1_config(self) ==
    IF PoSt_version(self) # "V1" THEN Panic
    ELSE CASE self \in {"StackedDrg1KiBV1", "StackedDrg16MiBV1", "StackedDrg256MiBV1",
                        "StackedDrg1GiBV1", "StackedDrg32GiBV1"} ->
              [sector_size |-> PoSt_sector_size(self),
               challenge_count |-> POST_CHALLENGE_COUNT,
               challenged_nodes |-> POST_CHALLENGED_NODES]

PoSt_cache_identifier(self, fault) ==
    CASE PoSt_version(self) = "V1" ->
            LET config == PoSt_as_v1_config(self)
            IN  IF IsPanic(config) THEN Panic
                ELSE get_cache_identifier(config, fault)
      [] OTHER -> Panic

(* ------------------------------------------------------------------ *)
(* Calls                                                               *)
(* ------------------------------------------------------------------ *)

Families == {"Seal", "PoSt"}

Ops == {"version", "sector_size", "partitions", "single_partition_proof_len",
        "as_v1_config", "cache_identifier"}

IdsOf(family) == IF family = "Seal" THEN RegisteredSealProof ELSE RegisteredPoStProof

\* mutant: as_v1_config calls partitions() a second time
Seal_loads_twice(op) ==
    CASE op = "partitions" -> 1
      [] op = "as_v1_config" -> 2
      [] op = "cache_identifier" -> 2
      [] OTHER -> 0

\* How many times one call of `op` executes the Relaxed load of
\* DEFAULT_POREP_PROOF_PARTITIONS: partitions loads it, as_v1_config calls
\* partitions once, cache_identifier calls as_v1_config once.
Seal_loads(op) ==
    CASE op = "partitions" -> 1
      [] op = "as_v1_config" -> 1
      [] op = "cache_identifier" -> 1
      [] OTHER -> 0

\* No method of RegisteredPoStProof touches the atomic.
PoSt_loads(op) == 0

Loads(family, op) == IF family = "Seal" THEN Seal_loads(op) ELSE PoSt_loads(op)

\* The value a call returns, given what its load returned and the fault the
\* external routine meets.
Seal_call(op, self, load, fault) ==
    CASE op = "version" -> Seal_version(self)
      [] op = "sector_size" -> Seal_sector_size(self)
      [] op = "partitions" -> Seal_partitions(self, load)
      [] op = "single_partition_proof_len" -> Seal_single_partition_proof_len(self)
      [] op = "as_v1_config" -> Seal_as_v1_config(self, load)
      [] op = "cache_identifier" -> Seal_cache_identifier(self, load, fault)

PoSt_call(op, self, fault) ==
    CASE op = "version" -> PoSt_version(self)
      [] op = "sector_size" -> PoSt_sector_size(self)
      [] op = "partitions" -> PoSt_partitions(self)
      [] op = "single_partition_proof_len" -> PoSt_single_partition_proof_len(self)
      [] op = "as_v1_config" -> PoSt_as_v1_config(self)
      [] op = "cache_identifier" -> PoSt_cache_identifier(self, fault)

(* ------------------------------------------------------------------ *)
(* Initial state and steps                                             *)
(* ------------------------------------------------------------------ *)

None == [none |-> TRUE]
NoLoad == 0 - 1

Init ==
    /\ DEFAULT_POREP_PROOF_PARTITIONS \in PartitionValues
    /\ lastStored = DEFAULT_POREP_PROOF_PARTITIONS
    /\ pc = [t \in Threads |-> "idle"]
    /\ call = [t \in Threads |-> None]
    /\ nloads = [t \in Threads |-> 0]
    /\ loaded = [t \in Threads |-> NoLoad]
    /\ result = [t \in Threads |-> None]
    /\ extArg = [t \in Threads |-> None]
    /\ extOut = [t \in Threads |-> None]

\* The faults the external routine may meet in a call of `op`: only
\* cache_identifier reaches it.
Faults(op) == IF op = "cache_identifier" THEN ExtErrors \cup {NoFault} ELSE {NoFault}

\* What a call leaves behind when it returns: its result, and the argument
\* and answer of the external routine when the call reached it.
Finished(t, c, ld) ==
    \E fault \in Faults(c.op) :
        LET config == IF c.family = "Seal" THEN Seal_as_v1_config(c.self, ld)
                      ELSE PoSt_as_v1_config(c.self)
            external == c.op = "cache_identifier" /\ ~IsPanic(config)
        IN  /\ result' = [result EXCEPT ![t] =
                   IF c.family = "Seal"
                   THEN Seal_call(c.op, c.self, ld, fault)
                   ELSE PoSt_call(c.op, c.self, fault)]
            /\ extArg' = [extArg EXCEPT ![t] = IF external THEN config ELSE None]
            /\ extOut' = [extOut EXCEPT ![t] =
                   IF external THEN get_cache_identifier(config, fault) ELSE None]
            /\ pc' = [pc EXCEPT ![t] = "done"]

\* A thread calls a registry method.  A method that never reaches the atomic
\* runs to its return in one step; one that does runs up to its load.
Call(t) ==
    /\ pc[t] \in {"idle", "done"}
    /\ \E family \in Families, op \in Ops :
         \E self \in IdsOf(family) :
            LET c == [family |-> family, op |-> op, self |-> self]
            IN  /\ call' = [call EXCEPT ![t] = c]
                /\ IF Loads(family, op) = 0
                   THEN Finished(t, c, NoLoad)
                   ELSE /\ pc' = [pc EXCEPT ![t] = "called"]
                        /\ result' = [result EXCEPT ![t] = None]
                        /\ extArg' = [extArg EXCEPT ![t] = None]
                        /\ extOut' = [extOut EXCEPT ![t] = None]
    /\ nloads' = [nloads EXCEPT ![t] = 0]
    /\ loaded' = [loaded EXCEPT ![t] = NoLoad]
    /\ UNCHANGED <<DEFAULT_POREP_PROOF_PARTITIONS, lastStored>>

\* mutant: swap(1, Relaxed) in place of load(Relaxed)
Load_swap(t) ==
    /\ pc[t] = "called"
    /\ nloads[t] < Loads(call[t].family, call[t].op)
    /\ loaded' = [loaded EXCEPT ![t] = DEFAULT_POREP_PROOF_PARTITIONS]
    /\ nloads' = [nloads EXCEPT ![t] = nloads[t] + 1]
    /\ DEFAULT_POREP_PROOF_PARTITIONS' = 1
    /\ UNCHANGED <<lastStored, pc, call, result, extArg, extOut>>

\* DEFAULT_POREP_PROOF_PARTITIONS.load(Ordering::Relaxed)
Load(t) ==
    /\ pc[t] = "called"
    /\ nloads[t] < Loads(call[t].family, call[t].op)
    /\ loaded' = [loaded EXCEPT ![t] = DEFAULT_POREP_PROOF_PARTITIONS]
    /\ nloads' = [nloads EXCEPT ![t] = nloads[t] + 1]
    /\ UNCHANGED <<DEFAULT_POREP_PROOF_PARTITIONS, lastStored,
                   pc, call, result, extArg, extOut>>

\* The rest of the method body after its load, up to its return.
Return(t) ==
    /\ pc[t] = "called"
    /\ nloads[t] = Loads(call[t].family, call[t].op)
    /\ Finished(t, call[t], loaded[t])
    /\ UNCHANGED <<DEFAULT_POREP_PROOF_PARTITIONS, lastStored,
                   call, nloads, loaded>>

\* The external writer stores a new default partition count.
Store ==
    /\ \E v \in PartitionValues \ {DEFAULT_POREP_PROOF_PARTITIONS} :
         /\ DEFAULT_POREP_PROOF_PARTITIONS' = v
         /\ lastStored' = v
    /\ UNCHANGED <<pc, call, nloads, loaded, result, extArg, extOut>>

Next ==
    \/ \E t \in Threads : Call(t)
    \/ \E t \in Threads : Load(t)
    \/ \E t \in Threads : Return(t)
    \/ Store

Spec == Init /\ [][Next]_vars

(* ------------------------------------------------------------------ *)
(* Properties                                                          *)
(* ------------------------------------------------------------------ *)

\* thread t has returned from a call of `op` on the registry `family`
Done(t, family, op) ==
    /\ pc[t] = "done"
    /\ call[t].family = family
    /\ call[t].op = op

sector_size_of(family, self) ==
    IF family = "Seal" THEN Seal_sector_size(self) ELSE PoSt_sector_size(self)

\* the Seal operations that reach the shared default
SealReaders == {"partitions", "as_v1_config", "cache_identifier"}

\* a u64 written limb by limb, least significant first
Limbs(a, b, c, d) == [i \in 0..3 |-> CASE i = 0 -> a [] i = 1 -> b [] i = 2 -> c [] i = 3 -> d]

\* C1: in both registries, for every identifier and every value of the
\* shared default, as_v1_config returns without panicking (the version
\* assertion holds) and the configuration's sector size is sector_size(id).
C1_AsConfigConsistent ==
    \A t \in Threads : \A family \in Families :
        Done(t, family, "as_v1_config") =>
            /\ ~IsPanic(result[t])
            /\ result[t].sector_size = sector_size_of(family, call[t].self)

C1_Witness ==
    /\ Done("t1", "Seal", "as_v1_config")
    /\ Done("t2", "PoSt", "as_v1_config")
    /\ call["t1"].self = "StackedDrg32GiBV1"
    /\ loaded["t1"] = 1
    /\ result["t2"].sector_size = SectorSize(SECTOR_SIZE_1_GIB)

\* C2: in the Sealing registry, the partitions of as_v1_config(id) are
\* partitions(id) whenever both calls loaded the same value of the shared
\* default, and two as_v1_config(id) calls that loaded the same value
\* return identical configurations.
C2_SealPartitionsAgree ==
    \A t1, t2 \in Threads :
        (/\ Done(t1, "Seal", "as_v1_config")
         /\ pc[t2] = "done"
         /\ call[t2].family = "Seal"
         /\ call[t2].self = call[t1].self
         /\ loaded[t2] = loaded[t1]) =>
            /\ call[t2].op = "partitions" =>
                   result[t1].partitions = PoRepProofPartitions(result[t2])
            /\ call[t2].op = "as_v1_config" => result[t1] = result[t2]

C2_Witness ==
    /\ Done("t1", "Seal", "as_v1_config")
    /\ Done("t2", "Seal", "partitions")
    /\ call["t1"].self = call["t2"].self
    /\ loaded["t1"] = 1
    /\ loaded["t2"] = 1
    /\ DEFAULT_POREP_PROOF_PARTITIONS = 10

\* C3 as stated: in the Storage registry the configuration as_v1_config
\* returns has partitions 1, and its challenge_count and challenged_nodes
\* are the external constants.
C3_Original ==
    \A t \in Threads :
        Done(t, "PoSt", "as_v1_config") =>
            /\ "partitions" \in DOMAIN result[t]
            /\ result[t].partitions = 1
            /\ result[t].challenge_count = POST_CHALLENGE_COUNT
            /\ result[t].challenged_nodes = POST_CHALLENGED_NODES

\* C3 amended: in the Storage registry partitions(id) is 1, and the
\* configuration as_v1_config returns holds exactly sector_size,
\* challenge_count and challenged_nodes (no partitions), the last two being
\* the external constants; neither call loads the shared default, so this
\* is so for every id and every value of the default.
C3_PoStConfigFixed ==
    \A t \in Threads :
        /\ Done(t, "PoSt", "partitions") =>
               /\ result[t] = 1
               /\ nloads[t] = 0
        /\ Done(t, "PoSt", "as_v1_config") =>
               /\ DOMAIN result[t] = {"sector_size", "challenge_count", "challenged_nodes"}
               /\ result[t].challenge_count = POST_CHALLENGE_COUNT
               /\ result[t].challenged_nodes = POST_CHALLENGED_NODES
               /\ nloads[t] = 0

C3_Witness ==
    /\ Done("t1", "PoSt", "partitions")
    /\ Done("t2", "PoSt", "as_v1_config")
    /\ call["t1"].self # call["t2"].self
    /\ DEFAULT_POREP_PROOF_PARTITIONS # lastStored \/ DEFAULT_POREP_PROOF_PARTITIONS = 10

\* C4: in both registries cache_identifier returns exactly what the
\* external derivation routine answered for as_v1_config(id): its string
\* when it succeeded, its own error when it failed, never a panic.
C4_CacheIdentifierTransparent ==
    \A t \in Threads : \A family \in Families :
        Done(t, family, "cache_identifier") =>
            /\ ~IsPanic(result[t])
            /\ result[t] = extOut[t]
            /\ extArg[t] = IF family = "Seal"
                           THEN [sector_size |-> Seal_sector_size(call[t].self),
                                 partitions |-> PoRepProofPartitions(loaded[t])]
                           ELSE [sector_size |-> PoSt_sector_size(call[t].self),
                                 challenge_count |-> POST_CHALLENGE_COUNT,
                                 challenged_nodes |-> POST_CHALLENGED_NODES]

C4_Witness ==
    /\ Done("t1", "Seal", "cache_identifier")
    /\ Done("t2", "PoSt", "cache_identifier")
    /\ ~extOut["t1"].ok
    /\ result["t1"].err = "hash"
    /\ result["t2"].ok

\* C5: two cache_identifier calls on the same identifier of the same
\* registry that loaded the same value of the shared default hand the same
\* configuration to the external routine, and when the routine succeeds in
\* both they return the same string.
C5_CacheIdentifierDeterministic ==
    \A t1, t2 \in Threads : \A family \in Families :
        (/\ Done(t1, family, "cache_identifier")
         /\ Done(t2, family, "cache_identifier")
         /\ call[t1].self = call[t2].self
         /\ loaded[t1] = loaded[t2]) =>
            /\ extArg[t1] = extArg[t2]
            /\ (result[t1].ok /\ result[t2].ok) => result[t1].val = result[t2].val

C5_Witness ==
    /\ Done("t1", "Seal", "cache_identifier")
    /\ Done("t2", "Seal", "cache_identifier")
    /\ call["t1"].self = call["t2"].self
    /\ loaded["t1"] = loaded["t2"]
    /\ loaded["t1"] # DEFAULT_POREP_PROOF_PARTITIONS
    /\ result["t1"].ok
    /\ result["t2"].ok

\* C6: version returns V1 for every identifier of both registries,
\* without loading the shared default.
C6_VersionIsV1 ==
    \A t \in Threads : \A family \in Families :
        Done(t, family, "version") =>
            /\ result[t] = "V1"
            /\ result[t] \in Version
            /\ nloads[t] = 0

C6_Witness ==
    /\ Done("t1", "Seal", "version")
    /\ Done("t2", "PoSt", "version")
    /\ call["t1"].self = "StackedDrg1KiBV1"
    /\ call["t2"].self = "StackedDrg32GiBV1"
    /\ DEFAULT_POREP_PROOF_PARTITIONS # lastStored \/ DEFAULT_POREP_PROOF_PARTITIONS = 1

\* the byte size each identifier names: 1024, 2^24, 2^28, 2^30, 2^35
NamedBytes(self) ==
    CASE self = "StackedDrg1KiBV1" -> Limbs(1024, 0, 0, 0)
      [] self = "StackedDrg16MiBV1" -> Limbs(0, 256, 0, 0)
      [] self = "StackedDrg256MiBV1" -> Limbs(0, 4096, 0, 0)
      [] self = "StackedDrg1GiBV1" -> Limbs(0, 16384, 0, 0)
      [] self = "StackedDrg32GiBV1" -> Limbs(0, 0, 8, 0)

\* C7: sector_size returns the byte size the identifier names, the same
\* in both registries; the Sealing 1 KiB identifier under a loaded default
\* of 10 gives {sector_size: 1024, partitions: 10}, and the Storage 1 GiB
\* identifier gives a configuration of sector size 2^30.
C7_SectorSizeTable ==
    \A t \in Threads :
        /\ \A family \in Families :
               Done(t, family, "sector_size") =>
                   result[t] = SectorSize(NamedBytes(call[t].self))
        /\ (Done(t, "Seal", "as_v1_config") /\ call[t].self = "StackedDrg1KiBV1"
               /\ loaded[t] = 10) =>
               result[t] = [sector_size |-> SectorSize(Limbs(1024, 0, 0, 0)),
                            partitions |-> PoRepProofPartitions(10)]
        /\ (Done(t, "PoSt", "as_v1_config") /\ call[t].self = "StackedDrg1GiBV1") =>
               result[t].sector_size = SectorSize(Limbs(0, 16384, 0, 0))
        /\ \A u \in Threads :
               (/\ pc[t] = "done" /\ pc[u] = "done"
                /\ call[t].op = "sector_size" /\ call[u].op = "sector_size"
                /\ call[t].self = call[u].self) => result[t] = result[u]

C7_Witness ==
    /\ Done("t1", "Seal", "as_v1_config")
    /\ call["t1"].self = "StackedDrg1KiBV1"
    /\ loaded["t1"] = 10
    /\ Done("t2", "PoSt", "sector_size")
    /\ call["t2"].self = "StackedDrg32GiBV1"

\* C8: the shared default always holds the value the external writer
\* stored last: no registry call writes it.  A returned call has loaded it
\* exactly when it is partitions, as_v1_config or cache_identifier of the
\* Sealing registry.
C8_RegistryNeverWrites ==
    /\ DEFAULT_POREP_PROOF_PARTITIONS = lastStored
    /\ \A t \in Threads :
           pc[t] = "done" =>
               (nloads[t] > 0 <=> (call[t].family = "Seal" /\ call[t].op \in SealReaders))

C8_Witness ==
    /\ Done("t1", "Seal", "cache_identifier")
    /\ Done("t2", "PoSt", "cache_identifier")
    /\ nloads["t1"] = 1
    /\ loaded["t1"] # DEFAULT_POREP_PROOF_PARTITIONS

\* the value a Sealing call returns as a function of its identifier and
\* one value of the default
SealPure(op, self, v) ==
    CASE op = "partitions" -> v
      [] op = "as_v1_config" ->
            [sector_size |-> Seal_sector_size(self), partitions |-> PoRepProofPartitions(v)]

C9_OneSnapshot ==
    \A t \in Threads :
        /\ (pc[t] = "done" /\ call[t].family = "Seal" /\ call[t].op \in SealReaders) =>
               /\ nloads[t] = 1
               /\ loaded[t] \in PartitionValues
               /\ call[t].op = "cache_identifier" =>
                      extArg[t] = SealPure("as_v1_config", call[t].self, loaded[t])
               /\ call[t].op # "cache_identifier" =>
                      result[t] = SealPure(call[t].op, call[t].self, loaded[t])
        /\ pc[t] = "called" => ENABLED (Load(t) \/ Return(t))

C9_LoadReadsCurrent ==
    \A t \in Threads :
        /\ nloads'[t] = nloads[t] + 1 => loaded'[t] = DEFAULT_POREP_PROOF_PARTITIONS
        /\ (pc[t] = "called" /\ nloads'[t] = nloads[t]) => loaded'[t] = loaded[t]

C9_Independent ==
    \A t, u \in Threads :
        (t # u /\ (pc'[t] # pc[t] \/ nloads'[t] # nloads[t])) =>
            /\ pc'[u] = pc[u]
            /\ call'[u] = call[u]
            /\ nloads'[u] = nloads[u]
            /\ loaded'[u] = loaded[u]
            /\ result'[u] = result[u]

\* C9: with calls of two threads and the external writer interleaved, a
\* returned partitions, as_v1_config or cache_identifier call of the Sealing
\* registry has executed exactly one load, that load returned the value the
\* default held at that step, and the call's result (the configuration it
\* handed on, for cache_identifier) is the function of the identifier and
\* that one value; a call in progress always has a step to take, and a
\* step of one thread changes nothing of the other's call.
C9_AtomicSnapshot ==
    /\ []C9_OneSnapshot
    /\ [][C9_LoadReadsCurrent]_vars
    /\ [][C9_Independent]_vars

C9_Witness ==
    /\ Done("t1", "Seal", "as_v1_config")
    /\ loaded["t1"] = 1
    /\ DEFAULT_POREP_PROOF_PARTITIONS = 10
    /\ pc["t2"] = "called"
    /\ call["t2"].op = "cache_identifier"
    /\ nloads["t2"] = 1
    /\ loaded["t2"] = 10

\* C10: within one registry two different identifiers never give the same
\* configuration under one value of the default (their sector sizes
\* differ), so the external routine never gets equal arguments for them.
C10_ConfigsDistinct ==
    \A t1, t2 \in Threads : \A family \in Families :
        (/\ pc[t1] = "done" /\ pc[t2] = "done"
         /\ call[t1].family = family /\ call[t2].family = family
         /\ call[t1].self # call[t2].self
         /\ loaded[t1] = loaded[t2]) =>
            /\ (call[t1].op = "as_v1_config" /\ call[t2].op = "as_v1_config") =>
                   /\ result[t1] # result[t2]
                   /\ result[t1].sector_size # result[t2].sector_size
            /\ (call[t1].op = "cache_identifier" /\ call[t2].op = "cache_identifier") =>
                   extArg[t1] # extArg[t2]
            /\ (call[t1].op = "sector_size" /\ call[t2].op = "sector_size") =>
                   result[t1] # result[t2]

C10_Witness ==
    /\ Done("t1", "PoSt", "cache_identifier")
    /\ Done("t2", "PoSt", "cache_identifier")
    /\ call["t1"].self = "StackedDrg16MiBV1"
    /\ call["t2"].self = "StackedDrg256MiBV1"

====
